---------------------------- MODULE Spec2Model ----------------------------
(***************************************************************************)
(* tangoctl: build a Docker image, push it, and deploy it over ssh to the  *)
(* configured Tango nodes (src/tangoctl.py, src/models.py).                *)
(*                                                                         *)
(* Python strings whose characters the code inspects (image names, the     *)
(* node selector, node names, the organization) are sequences of one-      *)
(* character strings.  Opaque strings (fqdn, key path, username) are TLA+  *)
(* strings.  Optional[str] is a sequence of length <= 1: <<>> is None.     *)
(* A dict is the sequence of its items in insertion order.                 *)
(***************************************************************************)
EXTENDS Integers, Sequences, FiniteSets, TLC

VARIABLES config, args, pc, target_nodes, image, node_idx, step,
          local_calls, ssh_calls, stdout, exc

vars == <<config, args, pc, target_nodes, image, node_idx, step,
          local_calls, ssh_calls, stdout, exc>>

(***************************************************************************)
(* Bounds of the model.                                                    *)
(***************************************************************************)
\* Longest node selector given on the command line, in characters.
MaxSelLen == 3
\* Largest number of entries of config.tango_nodes.
MaxNodes == 2
\* Largest exit status a subprocess returns (0 is success).
MaxExit == 1

None == <<>>
Some(v) == <<v>>

\* Sequences over S of length at most n.
RECURSIVE SeqsUpTo(_, _)
SeqsUpTo(S, n) ==
    IF n = 0 THEN {<<>>}
    ELSE LET shorter == SeqsUpTo(S, n - 1)
         IN  shorter \cup {Append(q, x) : q \in {r \in shorter : Len(r) = n - 1}, x \in S}

ReturnCodes == 0..MaxExit

(***************************************************************************)
(* str methods used by the code.                                           *)
(***************************************************************************)
\* c in s
Contains(s, c) == \E i \in 1..Len(s) : s[i] = c

\* s.count(c)
Count(s, c) == Cardinality({i \in 1..Len(s) : s[i] = c})

\* s.split(sep): cut at every separator; empty pieces are kept, and a string
\* without a separator (the empty one included) gives one piece.
RECURSIVE Split(_, _)
Split(s, sep) ==
    IF ~Contains(s, sep) THEN <<s>>
    ELSE LET i == CHOOSE k \in 1..Len(s) :
                      s[k] = sep /\ \A j \in 1..(k - 1) : s[j] # sep
         IN  <<SubSeq(s, 1, i - 1)>> \o Split(SubSeq(s, i + 1, Len(s)), sep)

\* Truth value of an Optional[str] (opaque string): None and "" are false.
Truthy(opt) == opt # None /\ opt[1] # ""

\* Truth value of an Optional[str] held as characters: None and "" are false.
TruthyChars(opt) == opt # None /\ opt[1] # <<>>

(***************************************************************************)
(* Inputs: config.yaml and the command line.                               *)
(***************************************************************************)
NodeNames == {<<"a">>, <<"l">>, <<"a", "l", "l">>}

\* TangoNode (volumes_path is never read by tangoctl.py and is left out).
TangoNodes ==
    { [fqdn |-> "h1", ssh_key_path |-> None,       ssh_username |-> None],
      [fqdn |-> "h2", ssh_key_path |-> None,       ssh_username |-> Some("u2")],
      [fqdn |-> "h1", ssh_key_path |-> Some("k3"), ssh_username |-> Some("")],
      [fqdn |-> "h2", ssh_key_path |-> Some(""),   ssh_username |-> Some("u4")] }

\* Config.tango_nodes: name -> TangoNode, keys unique, in insertion order.
NodeTables ==
    { t \in SeqsUpTo([name : NodeNames, node : TangoNodes], MaxNodes) :
        \A i, j \in 1..Len(t) : t[i].name = t[j].name => i = j }

Configs ==
    [ docker_hub_org : {<<"o">>},
      ssh_key_path   : {"k"},
      ssh_username   : {"u"},
      tango_nodes    : NodeTables ]

SelChars == {"a", "l", ","}
Selectors == SeqsUpTo(SelChars, MaxSelLen)

\* image_name of build and aio ("without an org or tag").
BareNames == {<<"s">>, <<"o", "/", "s">>, <<"s", ":", "t">>}
\* image_name of deploy ("including an org and tag").
ImageRefs == {<<"o", "/", "s", ":", "t">>, <<"s", ":", "t">>}

\* --org, --ssh-key-path, --ssh-username
GlobalArgs ==
    { [org |-> None,            ssh_key_path |-> None,       ssh_username |-> None],
      [org |-> Some(<<"p">>),   ssh_key_path |-> Some("kc"), ssh_username |-> None],
      [org |-> Some(<<>>),      ssh_key_path |-> Some(""),   ssh_username |-> Some("uc")] }

Args ==
    { [command |-> c, image_name |-> n, tango_node |-> <<>>,
       org |-> g.org, ssh_key_path |-> g.ssh_key_path, ssh_username |-> g.ssh_username] :
        c \in {"build", "aio"}, n \in BareNames, g \in GlobalArgs }
    \cup
    { [command |-> "deploy", image_name |-> n, tango_node |-> s,
       org |-> g.org, ssh_key_path |-> g.ssh_key_path, ssh_username |-> g.ssh_username] :
        n \in ImageRefs, s \in Selectors, g \in GlobalArgs }

NoExc == <<>>
Raised(type, name, fqdn, command, status) ==
    <<[type |-> type, name |-> name, fqdn |-> fqdn, command |-> command, status |-> status]>>

Init ==
    /\ config \in Configs
    /\ args \in Args
    /\ pc = "main"
    /\ target_nodes = <<>>
    /\ image = <<>>
    /\ node_idx = 1
    /\ step = 0
    /\ local_calls = <<>>
    /\ ssh_calls = <<>>
    /\ stdout = <<>>
    /\ exc = NoExc

(***************************************************************************)
(* Configuration and node resolution.                                      *)
(***************************************************************************)
\* name in config.tango_nodes
HasNode(cfg, name) == \E i \in 1..Len(cfg.tango_nodes) : cfg.tango_nodes[i].name = name

\* get_tango_node: config.tango_nodes[name], for a name that is a key.
get_tango_node(cfg, name) ==
    cfg.tango_nodes[CHOOSE i \in 1..Len(cfg.tango_nodes) : cfg.tango_nodes[i].name = name].node

\* list(config.tango_nodes.values())
AllNodes(cfg) == [i \in 1..Len(cfg.tango_nodes) |-> cfg.tango_nodes[i].node]

\* The selector "all".
AllSelector == <<"a", "l", "l">>

node_list_to_nodes_dedup(node_list, cfg) ==
    LET names == Split(node_list, ",")
        firsts == {i \in 1..Len(names) : \A j \in 1..(i - 1) : names[j] # names[i]}
        Rank(i) == Cardinality({j \in firsts : j <= i})
        uniq == [k \in 1..Cardinality(firsts) |-> names[CHOOSE i \in firsts : Rank(i) = k]]
        bad == {i \in 1..Len(uniq) : ~HasNode(cfg, uniq[i])}
    IN  IF node_list = AllSelector THEN [raised |-> FALSE, key |-> <<>>, nodes |-> AllNodes(cfg)]
        ELSE IF bad # {}
        THEN [raised |-> TRUE, key |-> uniq[CHOOSE i \in bad : \A j \in bad : i <= j],
              nodes |-> <<>>]
        ELSE [raised |-> FALSE, key |-> <<>>,
              nodes |-> [i \in 1..Len(uniq) |-> get_tango_node(cfg, uniq[i])]]

node_list_to_nodes_skip_unknown(node_list, cfg) ==
    LET names == Split(node_list, ",")
        known == {i \in 1..Len(names) : HasNode(cfg, names[i])}
        Rank(i) == Cardinality({j \in known : j <= i})
    IN  IF node_list = AllSelector THEN [raised |-> FALSE, key |-> <<>>, nodes |-> AllNodes(cfg)]
        ELSE [raised |-> FALSE, key |-> <<>>,
              nodes |-> [k \in 1..Cardinality(known) |->
                            get_tango_node(cfg, names[CHOOSE i \in known : Rank(i) = k])]]

node_list_to_nodes_lookup_first(node_list, cfg) ==
    LET names == Split(node_list, ",")
        bad == {i \in 1..Len(names) : ~HasNode(cfg, names[i])}
    IN  IF bad = {}
        THEN [raised |-> FALSE, key |-> <<>>,
              nodes |-> [i \in 1..Len(names) |-> get_tango_node(cfg, names[i])]]
        ELSE IF node_list = AllSelector
        THEN [raised |-> FALSE, key |-> <<>>, nodes |-> AllNodes(cfg)]
        ELSE [raised |-> TRUE, key |-> names[CHOOSE i \in bad : \A j \in bad : i <= j],
              nodes |-> <<>>]

\* node_list_to_nodes: the resolved list, or the KeyError of the first name,
\* in list order, that is no key of config.tango_nodes.
node_list_to_nodes(node_list, cfg) ==
    LET names == Split(node_list, ",")
        bad == {i \in 1..Len(names) : ~HasNode(cfg, names[i])}
    IN  IF node_list = AllSelector THEN [raised |-> FALSE, key |-> <<>>, nodes |-> AllNodes(cfg)]
        ELSE IF bad # {}
        THEN [raised |-> TRUE, key |-> names[CHOOSE i \in bad : \A j \in bad : i <= j],
              nodes |-> <<>>]
        ELSE [raised |-> FALSE, key |-> <<>>,
              nodes |-> [i \in 1..Len(names) |-> get_tango_node(cfg, names[i])]]

(***************************************************************************)
(* Remote command runner.                                                  *)
(***************************************************************************)
ssh_key_path_all_or_nothing(tango_node, cfg) ==
    IF Truthy(tango_node.ssh_key_path) /\ Truthy(tango_node.ssh_username)
    THEN tango_node.ssh_key_path[1] ELSE cfg.ssh_key_path

\* tango_node.ssh_key_path if tango_node.ssh_key_path else get_config().ssh_key_path
ssh_key_path(tango_node, cfg) ==
    IF Truthy(tango_node.ssh_key_path) THEN tango_node.ssh_key_path[1] ELSE cfg.ssh_key_path

\* tango_node.ssh_username if tango_node.ssh_username else get_config().ssh_username
ssh_username(tango_node, cfg) ==
    IF Truthy(tango_node.ssh_username) THEN tango_node.ssh_username[1] ELSE cfg.ssh_username

\* f"{ssh_username}@{tango_node.fqdn}"
ssh_user_host(tango_node, cfg) == <<ssh_username(tango_node, cfg), "@", tango_node.fqdn>>

CommandFailedNever(returncode) == FALSE

CommandFailedNegative(returncode) == returncode < 0

\* proc.returncode != 0
CommandFailed(returncode) == returncode # 0

(***************************************************************************)
(* Image names.                                                            *)
(***************************************************************************)
\* get_date_time_stamp(): the wall-clock stamp, one opaque token.
timestamp_tag == <<"YYYY.MM.DD.HHMMSS">>

\* f"{org}/{args.image_name}"
QualifiedName(org, image_name) == org \o <<"/">> \o image_name

\* The assertion of build(): "/" not in args.image_name
BareNameOk(image_name) == ~Contains(image_name, "/")

\* The assertions of build_docker_image_from_dockerfile.
BuilderNameOk(image_name) == ~Contains(image_name, ":") /\ Count(image_name, "/") = 1

image_name_timestamp(image_name) == image_name \o <<":">> \o timestamp_tag

image_name_latest_timestamped(image_name) == image_name \o <<":">> \o timestamp_tag

image_name_latest(image_name) == image_name \o <<":", "latest">>

DeployCommandRemovesBare(k, image_name) ==
    CASE k = 1 -> <<"docker pull ">> \o image_name
      [] k = 2 -> <<"docker tag ">> \o image_name \o <<" ">> \o Split(image_name, "/")[2]
      [] k = 3 -> <<"docker image rm ">> \o Split(image_name, "/")[2]

\* The three remote commands of deploy_docker_image, in order.
DeployCommand(k, image_name) ==
    CASE k = 1 -> <<"docker pull ">> \o image_name
      [] k = 2 -> <<"docker tag ">> \o image_name \o <<" ">> \o Split(image_name, "/")[2]
      [] k = 3 -> <<"docker image rm ">> \o image_name

(***************************************************************************)
(* The run.  pc is the position of the single thread of main().            *)
(***************************************************************************)
\* An uncaught exception ends the process.
Raise(e) ==
    /\ exc' = e
    /\ pc' = "done"

ParseArgsToConfigOverridingNodes ==
    /\ pc = "main"
    /\ config' = [config EXCEPT
          !.docker_hub_org = IF TruthyChars(args.org) THEN args.org[1] ELSE @,
          !.ssh_key_path   = IF Truthy(args.ssh_key_path) THEN args.ssh_key_path[1] ELSE @,
          !.ssh_username   = IF Truthy(args.ssh_username) THEN args.ssh_username[1] ELSE @,
          !.tango_nodes    = [i \in 1..Len(@) |->
              [@[i] EXCEPT
                 !.node.ssh_key_path = IF Truthy(args.ssh_key_path)
                                       THEN args.ssh_key_path ELSE @,
                 !.node.ssh_username = IF Truthy(args.ssh_username)
                                       THEN args.ssh_username ELSE @]]]
    /\ pc' = args.command
    /\ UNCHANGED <<args, target_nodes, image, node_idx, step,
                   local_calls, ssh_calls, stdout, exc>>

\* main and parse_args_to_config: the command-line overrides are written into
\* the cached config, then the handler of args.command is called.
ParseArgsToConfig ==
    /\ pc = "main"
    /\ config' = [config EXCEPT
          !.docker_hub_org = IF TruthyChars(args.org) THEN args.org[1] ELSE @,
          !.ssh_key_path   = IF Truthy(args.ssh_key_path) THEN args.ssh_key_path[1] ELSE @,
          !.ssh_username   = IF Truthy(args.ssh_username) THEN args.ssh_username[1] ELSE @]
    /\ pc' = args.command
    /\ UNCHANGED <<args, target_nodes, image, node_idx, step,
                   local_calls, ssh_calls, stdout, exc>>

BuildUnchecked ==
    /\ pc \in {"build", "aio"}
    /\ image' = QualifiedName(config.docker_hub_org, args.image_name)
    /\ pc' = "docker_build"
    /\ UNCHANGED <<config, args, target_nodes, node_idx, step,
                   local_calls, ssh_calls, stdout, exc>>

\* build() up to the first subprocess of build_docker_image_from_dockerfile:
\* the three assertions, in the order the code makes them.
Build ==
    /\ pc \in {"build", "aio"}
    /\ LET image_name == QualifiedName(config.docker_hub_org, args.image_name)
       IN  IF BareNameOk(args.image_name) /\ BuilderNameOk(image_name)
           THEN /\ image' = image_name
                /\ pc' = "docker_build"
                /\ UNCHANGED exc
           ELSE /\ Raise(Raised("AssertionError", image_name, "", <<>>, 0))
                /\ UNCHANGED image
    /\ UNCHANGED <<config, args, target_nodes, node_idx, step,
                   local_calls, ssh_calls, stdout>>

\* subprocess.run(["docker", "build", "-t", image_name_timestamp, dockerfile]);
\* the return code is not looked at.
DockerBuild ==
    /\ pc = "docker_build"
    /\ \E returncode \in ReturnCodes :
          local_calls' = Append(local_calls,
              [cmd |-> "docker build", image |-> image_name_timestamp(image),
               target |-> <<>>, returncode |-> returncode])
    /\ pc' = "docker_tag"
    /\ UNCHANGED <<config, args, target_nodes, image, node_idx, step,
                   ssh_calls, stdout, exc>>

DockerTagThenPush ==
    /\ pc = "docker_tag"
    /\ \E returncode \in ReturnCodes :
          local_calls' = Append(local_calls,
              [cmd |-> "docker tag", image |-> image_name_timestamp(image),
               target |-> image_name_latest(image), returncode |-> returncode])
    /\ image' = image_name_latest(image)
    /\ pc' = "push"
    /\ UNCHANGED <<config, args, target_nodes, node_idx, step, ssh_calls, stdout, exc>>

\* subprocess.run(["docker", "tag", image_name_timestamp, image_name_latest]) and
\* the return of image_name_latest; build mode ends here.
DockerTag ==
    /\ pc = "docker_tag"
    /\ \E returncode \in ReturnCodes :
          local_calls' = Append(local_calls,
              [cmd |-> "docker tag", image |-> image_name_timestamp(image),
               target |-> image_name_latest(image), returncode |-> returncode])
    /\ image' = image_name_latest(image)
    /\ pc' = IF args.command = "build" THEN "done" ELSE "push"
    /\ UNCHANGED <<config, args, target_nodes, node_idx, step, ssh_calls, stdout, exc>>

\* aio: push_docker_image(image_name_latest), then the target list is every
\* configured node.
PushDockerImage ==
    /\ pc = "push"
    /\ \E returncode \in ReturnCodes :
          local_calls' = Append(local_calls,
              [cmd |-> "docker push", image |-> image,
               target |-> <<>>, returncode |-> returncode])
    /\ target_nodes' = AllNodes(config)
    /\ node_idx' = 1
    /\ pc' = "loop"
    /\ UNCHANGED <<config, args, image, step, ssh_calls, stdout, exc>>

\* deploy: resolve args.tango_node; a KeyError leaves the function.
Deploy ==
    /\ pc = "deploy"
    /\ LET r == node_list_to_nodes(args.tango_node, config)
       IN  IF r.raised
           THEN /\ Raise(Raised("KeyError", r.key, "", <<>>, 0))
                /\ UNCHANGED <<target_nodes, image, node_idx>>
           ELSE /\ target_nodes' = r.nodes
                /\ image' = args.image_name
                /\ node_idx' = 1
                /\ pc' = "loop"
                /\ UNCHANGED exc
    /\ UNCHANGED <<config, args, step, local_calls, ssh_calls, stdout>>

DeployDockerImageSplitAfterPull ==
    /\ pc = "loop"
    /\ node_idx <= Len(target_nodes)
    /\ stdout' = Append(stdout, [text |-> "Deploying image", image |-> image,
                                 fqdn |-> target_nodes[node_idx].fqdn, pos |-> node_idx])
    /\ step' = 1
    /\ pc' = "ssh"
    /\ UNCHANGED <<config, args, target_nodes, image, node_idx, local_calls, ssh_calls, exc>>

\* for node in target_nodes: deploy_docker_image(image, node), up to its first
\* remote command: the start marker and image_name.split("/")[1].
DeployDockerImage ==
    /\ pc = "loop"
    /\ node_idx <= Len(target_nodes)
    /\ stdout' = Append(stdout, [text |-> "Deploying image", image |-> image,
                                 fqdn |-> target_nodes[node_idx].fqdn, pos |-> node_idx])
    /\ IF Len(Split(image, "/")) < 2
       THEN /\ Raise(Raised("IndexError", image, "", <<>>, 0))
            /\ UNCHANGED step
       ELSE /\ step' = 1
            /\ pc' = "ssh"
            /\ UNCHANGED exc
    /\ UNCHANGED <<config, args, target_nodes, image, node_idx, local_calls, ssh_calls>>

RunCommandOnTangoNodeRetryOnce ==
    /\ pc = "ssh"
    /\ LET tango_node == target_nodes[node_idx]
           command == DeployCommand(step, image)
           retried == /\ ssh_calls # <<>>
                      /\ ssh_calls[Len(ssh_calls)].returncode # 0
       IN  \E returncode \in ReturnCodes :
             /\ ssh_calls' = Append(ssh_calls,
                   [identity |-> ssh_key_path(tango_node, config),
                    user_host |-> ssh_user_host(tango_node, config),
                    command |-> command, returncode |-> returncode, pos |-> node_idx])
             /\ IF CommandFailed(returncode) /\ ~retried
                THEN UNCHANGED <<pc, step, node_idx, stdout, exc>>
                ELSE IF CommandFailed(returncode)
                THEN /\ Raise(Raised("Exception", <<>>, tango_node.fqdn, command, returncode))
                     /\ UNCHANGED <<step, node_idx, stdout>>
                ELSE IF step < 3
                THEN /\ step' = step + 1
                     /\ UNCHANGED <<pc, node_idx, stdout, exc>>
                ELSE /\ stdout' = Append(stdout,
                           [text |-> "Finished deploying image", image |-> image,
                            fqdn |-> tango_node.fqdn, pos |-> node_idx])
                     /\ node_idx' = node_idx + 1
                     /\ step' = 0
                     /\ pc' = "loop"
                     /\ UNCHANGED exc
    /\ UNCHANGED <<config, args, target_nodes, image, local_calls>>

\* run_command_on_tango_node for the current step of the current node: one ssh
\* subprocess; a non-zero return code raises and nothing catches it.
RunCommandOnTangoNode ==
    /\ pc = "ssh"
    /\ LET tango_node == target_nodes[node_idx]
           command == DeployCommand(step, image)
       IN  \E returncode \in ReturnCodes :
             /\ ssh_calls' = Append(ssh_calls,
                   [identity |-> ssh_key_path(tango_node, config),
                    user_host |-> ssh_user_host(tango_node, config),
                    command |-> command, returncode |-> returncode, pos |-> node_idx])
             /\ IF CommandFailed(returncode)
                THEN /\ Raise(Raised("Exception", <<>>, tango_node.fqdn, command, returncode))
                     /\ UNCHANGED <<step, node_idx, stdout>>
                ELSE IF step < 3
                THEN /\ step' = step + 1
                     /\ UNCHANGED <<pc, node_idx, stdout, exc>>
                ELSE /\ stdout' = Append(stdout,
                           [text |-> "Finished deploying image", image |-> image,
                            fqdn |-> tango_node.fqdn, pos |-> node_idx])
                     /\ node_idx' = node_idx + 1
                     /\ step' = 0
                     /\ pc' = "loop"
                     /\ UNCHANGED exc
    /\ UNCHANGED <<config, args, target_nodes, image, local_calls>>

\* The loop over target_nodes is exhausted: the handler and main return.
Return ==
    /\ pc = "loop"
    /\ node_idx > Len(target_nodes)
    /\ pc' = "done"
    /\ UNCHANGED <<config, args, target_nodes, image, node_idx, step,
                   local_calls, ssh_calls, stdout, exc>>

Next ==
    \/ ParseArgsToConfig
    \/ Build
    \/ DockerBuild
    \/ DockerTag
    \/ PushDockerImage
    \/ Deploy
    \/ DeployDockerImage
    \/ RunCommandOnTangoNode
    \/ Return

Spec == Init /\ [][Next]_vars

\* The runs over node tables whose nodes carry no credential override of their
\* own: every command, selector, image name, global override and table shape
\* of Init.  The credentials do not enter any condition of the control flow.
InitPlainNodes ==
    /\ Init
    /\ \A i \in 1..Len(config.tango_nodes) :
          /\ config.tango_nodes[i].node.ssh_key_path = None
          /\ config.tango_nodes[i].node.ssh_username = None

\* The single thread keeps running and every subprocess.run returns: a step of
\* the run that can be taken is taken.
FairSpec == InitPlainNodes /\ [][Next]_vars /\ WF_vars(Next)

\* Exit status of the process: 1 after an uncaught exception, 0 otherwise.
ExitStatus == IF exc # NoExc THEN 1 ELSE 0

TypeOK ==
    /\ pc \in {"main", "build", "deploy", "aio", "docker_build", "docker_tag",
               "push", "loop", "ssh", "done"}
    /\ node_idx \in 1..(Len(target_nodes) + 1)
    /\ step \in 0..3
    /\ Len(exc) <= 1

(***************************************************************************)
(* Vocabulary of the properties.                                           *)
(***************************************************************************)
DeployRun == args.command \in {"deploy", "aio"}

IsPull(c)   == c.command[1] = "docker pull "
IsRetag(c)  == c.command[1] = "docker tag "
IsRemove(c) == c.command[1] = "docker image rm "

\* Remote commands issued for the entry at position i of the resolved list.
CallsAt(i) == {k \in 1..Len(ssh_calls) : ssh_calls[k].pos = i}

\* The deploy sequence of the entry at position i failed.
NodeFailed(i) == \E k \in CallsAt(i) : ssh_calls[k].returncode # 0

\* The deploy sequence of the entry at position i ran its three steps, all with status 0.
NodeCompleted(i) ==
    /\ \E k \in CallsAt(i) : IsPull(ssh_calls[k])
    /\ \E k \in CallsAt(i) : IsRetag(ssh_calls[k])
    /\ \E k \in CallsAt(i) : IsRemove(ssh_calls[k])
    /\ \A k \in CallsAt(i) : ssh_calls[k].returncode = 0

\* An error other than a failed remote command ended the run.
PreFlightError == exc # NoExc /\ exc[1].type # "Exception"

\* The comma-separated tokens of a selector, read off the comma positions.
Commas(s) == {i \in 1..Len(s) : s[i] = ","}
NumTokens(s) == Cardinality(Commas(s)) + 1
CommaPos(s, n) ==
    IF n = 0 THEN 0
    ELSE IF n > Cardinality(Commas(s)) THEN Len(s) + 1
    ELSE CHOOSE p \in Commas(s) : Cardinality({q \in Commas(s) : q <= p}) = n
Token(s, i) == SubSeq(s, CommaPos(s, i - 1) + 1, CommaPos(s, i) - 1)

\* Every token of the selector is a configured node name.
AllTokensKnown(s) == \A i \in 1..NumTokens(s) : HasNode(config, Token(s, i))

\* The node record configured under a name is r.
RecordOf(name, r) ==
    \E j \in 1..Len(config.tango_nodes) :
        config.tango_nodes[j].name = name /\ config.tango_nodes[j].node = r

(***************************************************************************)
(* C1: in deploy and aio, when the deploy sequence of the entry at         *)
(* position i fails, the pull of every later entry is still issued.        *)
(* The code lets the exception of run_command_on_tango_node leave the      *)
(* loop, so this fails.                                                    *)
(***************************************************************************)
C1_LaterNodesStillAttempted ==
    (pc = "done" /\ DeployRun) =>
        \A i \in 1..Len(target_nodes) :
            NodeFailed(i) =>
                \A j \in (i + 1)..Len(target_nodes) :
                    \E k \in CallsAt(j) : IsPull(ssh_calls[k])

(***************************************************************************)
(* C2: per entry the remote commands are pull, retag, remove in this       *)
(* order; retag directly follows a pull with status 0, remove directly     *)
(* follows a retag with status 0, and nothing is issued for an entry after  *)
(* one of its commands returned non-zero.                                  *)
(***************************************************************************)
C2_FixedOrderAbortOnFailure ==
    \A k \in 1..Len(ssh_calls) :
        LET c == ssh_calls[k]
            FollowsOk(P(_)) ==
                /\ k > 1
                /\ ssh_calls[k - 1].pos = c.pos
                /\ P(ssh_calls[k - 1])
                /\ ssh_calls[k - 1].returncode = 0
        IN  /\ IsPull(c) \/ IsRetag(c) \/ IsRemove(c)
            /\ IsPull(c) => \A m \in 1..(k - 1) : ssh_calls[m].pos # c.pos
            /\ IsRetag(c) => FollowsOk(IsPull)
            /\ IsRemove(c) => FollowsOk(IsRetag)
            /\ c.returncode # 0 => \A m \in (k + 1)..Len(ssh_calls) : ssh_calls[m].pos # c.pos

\* The first entry completed, the second pulled and then failed to retag.
C2_Witness ==
    /\ pc = "done"
    /\ Len(ssh_calls) = 5
    /\ NodeCompleted(1)
    /\ IsRetag(ssh_calls[5])
    /\ ssh_calls[5].returncode # 0

(***************************************************************************)
(* C3: in deploy, a selector other than "all" with a token that is no      *)
(* configured name ends the run in an error, with no target list and no    *)
(* remote command, also when configured names precede the unknown one.     *)
(***************************************************************************)
C3_HasUnknownName ==
    /\ args.command = "deploy"
    /\ args.tango_node # AllSelector
    /\ ~AllTokensKnown(args.tango_node)

C3_UnknownNameNothingDeployed ==
    C3_HasUnknownName =>
        /\ ssh_calls = <<>>
        /\ target_nodes = <<>>
        /\ pc \in {"main", "deploy", "done"}
        /\ pc = "done" => ExitStatus # 0 /\ exc[1].type = "KeyError"

\* A configured name, then an unknown one: the run has ended.
C3_Witness ==
    /\ C3_HasUnknownName
    /\ pc = "done"
    /\ NumTokens(args.tango_node) = 2
    /\ HasNode(config, Token(args.tango_node, 1))
    /\ ~HasNode(config, Token(args.tango_node, 2))

(***************************************************************************)
(* C4: a finished deploy or aio run has a failure status exactly when the  *)
(* deploy sequence of a targeted entry failed or an error before the first *)
(* remote command (unknown node name, malformed image name) occurred, and  *)
(* a success status exactly when no such error occurred and every targeted *)
(* entry ran its three steps with status 0.                                *)
(***************************************************************************)
C4_StatusIffNodeOrPreFlightFailure ==
    (pc = "done" /\ DeployRun) =>
        /\ ExitStatus # 0 <=>
              (PreFlightError \/ \E i \in 1..Len(target_nodes) : NodeFailed(i))
        /\ ExitStatus = 0 <=>
              (~PreFlightError /\ \A i \in 1..Len(target_nodes) : NodeCompleted(i))

\* aio over two nodes: the first completed, the second failed.
C4_Witness ==
    /\ pc = "done"
    /\ args.command = "aio"
    /\ Len(target_nodes) = 2
    /\ NodeCompleted(1)
    /\ NodeFailed(2)
    /\ ExitStatus # 0

(***************************************************************************)
(* C5: at the end of a deploy or aio run every targeted entry has exactly  *)
(* one recorded outcome (its finish marker or its failure report).  The    *)
(* code stops at the first failing entry (see C1), so later entries have   *)
(* none.                                                                   *)
(***************************************************************************)
C5_OneOutcomePerTarget ==
    (pc = "done" /\ DeployRun /\ ~PreFlightError) =>
        \A i \in 1..Len(target_nodes) :
            LET finished == {m \in 1..Len(stdout) :
                               stdout[m].pos = i /\ stdout[m].text = "Finished deploying image"}
                reported == IF NodeFailed(i) /\ exc # NoExc
                               /\ exc[1].fqdn = target_nodes[i].fqdn THEN 1 ELSE 0
            IN  Cardinality(finished) + reported = 1

(***************************************************************************)
(* C6: in build and aio, a non-zero status of the docker build or docker   *)
(* tag command gives the run a failure status.  The code never reads the   *)
(* return code of either command.                                          *)
(***************************************************************************)
C6_BuilderFailureFailsRun ==
    (pc = "done" /\ args.command \in {"build", "aio"}) =>
        ((\E k \in 1..Len(local_calls) :
              /\ local_calls[k].cmd \in {"docker build", "docker tag"}
              /\ local_calls[k].returncode # 0)
         => ExitStatus # 0)

(***************************************************************************)
(* C7: in build and aio, a bare image name with a "/" fails the run before *)
(* any collaborator runs: no docker build, tag or push, no remote command. *)
(***************************************************************************)
C7_SlashInName == args.command \in {"build", "aio"} /\ Contains(args.image_name, "/")

C7_SlashFailsBeforeCollaborators ==
    C7_SlashInName =>
        /\ local_calls = <<>>
        /\ ssh_calls = <<>>
        /\ pc \in {"main", "build", "aio", "done"}
        /\ pc = "done" => ExitStatus # 0

\* aio with a "/" in the name and nodes configured: the run has ended.
C7_Witness ==
    /\ C7_SlashInName
    /\ args.command = "aio"
    /\ Len(config.tango_nodes) > 0
    /\ pc = "done"

(***************************************************************************)
(* C8: a selector other than "all" whose tokens are all configured names   *)
(* resolves to one entry per token, in token order, entry i being the      *)
(* record of token i; a repeated name gives repeated entries.              *)
(***************************************************************************)
C8_Resolved ==
    /\ args.command = "deploy"
    /\ args.tango_node # AllSelector
    /\ AllTokensKnown(args.tango_node)
    /\ pc \notin {"main", "deploy"}

C8_OneEntryPerTokenInOrder ==
    C8_Resolved =>
        /\ ~PreFlightError \/ exc[1].type # "KeyError"
        /\ Len(target_nodes) = NumTokens(args.tango_node)
        /\ \A i \in 1..Len(target_nodes) :
              RecordOf(Token(args.tango_node, i), target_nodes[i])

\* A name given twice.
C8_Witness ==
    /\ C8_Resolved
    /\ NumTokens(args.tango_node) = 2
    /\ Token(args.tango_node, 1) = Token(args.tango_node, 2)
    /\ Len(target_nodes) = 2

(***************************************************************************)
(* C9: the selector "all" resolves to the record of every configured name  *)
(* exactly once and nothing else, for every node table, the empty one and  *)
(* one with a node named "all" included.                                   *)
(***************************************************************************)
C9_Resolved ==
    /\ args.command = "deploy"
    /\ args.tango_node = AllSelector
    /\ pc \notin {"main", "deploy"}

C9_AllIsEveryNodeOnce ==
    C9_Resolved =>
        /\ ~PreFlightError \/ exc[1].type # "KeyError"
        /\ Len(target_nodes) = Cardinality({config.tango_nodes[j].name :
                                              j \in 1..Len(config.tango_nodes)})
        /\ \A r \in TangoNodes :
              Cardinality({i \in 1..Len(target_nodes) : target_nodes[i] = r})
                = Cardinality({j \in 1..Len(config.tango_nodes) :
                                 config.tango_nodes[j].node = r})

\* Two nodes configured, one of them named "all".
C9_Witness ==
    /\ C9_Resolved
    /\ Len(config.tango_nodes) = 2
    /\ HasNode(config, AllSelector)
    /\ Len(target_nodes) = 2

(***************************************************************************)
(* C10 as stated: each remote command uses, per credential field, the      *)
(* node's override when the node has one and the global default            *)
(* otherwise.  An override that is the empty string is not used.           *)
(***************************************************************************)
C10_OverrideWheneverPresent ==
    \A k \in 1..Len(ssh_calls) :
        LET c == ssh_calls[k]
            n == target_nodes[c.pos]
        IN  /\ c.identity = IF n.ssh_key_path # None THEN n.ssh_key_path[1]
                            ELSE config.ssh_key_path
            /\ c.user_host[1] = IF n.ssh_username # None THEN n.ssh_username[1]
                                ELSE config.ssh_username

(***************************************************************************)
(* C10 amended: each remote command uses, per credential field and         *)
(* independently of the other field, the node's override when the node has *)
(* a non-empty one and the global default otherwise (an absent or empty    *)
(* override falls back), and the session targets username@fqdn of the node.*)
(***************************************************************************)
C10_NonEmptyOverridePerField ==
    \A k \in 1..Len(ssh_calls) :
        LET c == ssh_calls[k]
            n == target_nodes[c.pos]
            Has(opt) == opt \notin {None, Some("")}
        IN  /\ c.identity = IF Has(n.ssh_key_path) THEN n.ssh_key_path[1]
                            ELSE config.ssh_key_path
            /\ c.user_host = << IF Has(n.ssh_username) THEN n.ssh_username[1]
                                ELSE config.ssh_username,
                                "@", n.fqdn >>

\* A command on a node that overrides only the username.
C10_Witness ==
    \E k \in 1..Len(ssh_calls) :
        LET n == target_nodes[ssh_calls[k].pos]
        IN  /\ n.ssh_key_path = None
            /\ n.ssh_username = Some("u2")
            /\ ssh_calls[k].identity = config.ssh_key_path
            /\ ssh_calls[k].user_host = <<"u2", "@", n.fqdn>>

(***************************************************************************)
(* C11: in aio the order is build, push, deploy: the push comes after the  *)
(* docker build and docker tag calls, every remote command after the push; *)
(* the reference pushed, and pulled on every node, is <org>/<name>:latest  *)
(* as returned by the build, never the timestamp-tagged one; the targets   *)
(* are every configured node exactly once.                                 *)
(***************************************************************************)
C11_Latest == config.docker_hub_org \o <<"/">> \o args.image_name \o <<":", "latest">>

C11_BuildPushDeployLatest ==
    args.command = "aio" =>
        /\ \A k \in 1..Len(local_calls) :
              local_calls[k].cmd = "docker push" =>
                  /\ k = 3
                  /\ local_calls[1].cmd = "docker build"
                  /\ local_calls[2].cmd = "docker tag"
                  /\ local_calls[k].image = C11_Latest
                  /\ local_calls[k].image = local_calls[2].target
                  /\ local_calls[k].image # local_calls[1].image
        /\ (ssh_calls # <<>> \/ pc \in {"loop", "ssh"}) =>
              /\ Len(local_calls) = 3
              /\ local_calls[3].cmd = "docker push"
              /\ Len(target_nodes) = Len(config.tango_nodes)
              /\ \A r \in TangoNodes :
                    Cardinality({i \in 1..Len(target_nodes) : target_nodes[i] = r})
                      = Cardinality({j \in 1..Len(config.tango_nodes) :
                                       config.tango_nodes[j].node = r})
        /\ \A k \in 1..Len(ssh_calls) :
              IsPull(ssh_calls[k]) => ssh_calls[k].command = <<"docker pull ">> \o C11_Latest

\* aio over two configured nodes, both deployed.
C11_Witness ==
    /\ args.command = "aio"
    /\ pc = "done"
    /\ Len(config.tango_nodes) = 2
    /\ NodeCompleted(1)
    /\ NodeCompleted(2)

(***************************************************************************)
(* C12: a build run never pushes and never issues a remote command; a      *)
(* deploy run never runs docker build, docker tag or docker push.          *)
(***************************************************************************)
C12_ModesTouchOwnCollaborators ==
    /\ args.command = "build" =>
          /\ ssh_calls = <<>>
          /\ target_nodes = <<>>
          /\ \A k \in 1..Len(local_calls) : local_calls[k].cmd # "docker push"
    /\ args.command = "deploy" => local_calls = <<>>

\* A build run that called the builder and ended, with nodes configured.
C12_Witness ==
    /\ args.command = "build"
    /\ pc = "done"
    /\ Len(local_calls) = 2
    /\ Len(config.tango_nodes) > 0

(***************************************************************************)
(* C13: deployment goes through the resolved list in order, one entry at a *)
(* time: the remote commands are logged by non-decreasing position, a      *)
(* command for an entry is issued only when every earlier entry ran its    *)
(* three steps, and in a deploy run where every command succeeds each      *)
(* token of the selector, repeated or not, gets exactly three commands on  *)
(* its own node.                                                           *)
(***************************************************************************)
C13_SequentialInListOrder ==
    /\ \A k \in 1..Len(ssh_calls) :
          /\ ssh_calls[k].pos \in 1..Len(target_nodes)
          /\ k > 1 => ssh_calls[k - 1].pos <= ssh_calls[k].pos
          /\ (k = 1 \/ ssh_calls[k - 1].pos < ssh_calls[k].pos) =>
                \A i \in 1..(ssh_calls[k].pos - 1) :
                    NodeCompleted(i) /\ Cardinality(CallsAt(i)) = 3
    /\ (pc = "done" /\ ExitStatus = 0 /\ args.command = "deploy"
          /\ args.tango_node # AllSelector) =>
          /\ Len(ssh_calls) = 3 * NumTokens(args.tango_node)
          /\ \A i \in 1..NumTokens(args.tango_node) :
                /\ NodeCompleted(i)
                /\ Cardinality(CallsAt(i)) = 3
                /\ \A k \in CallsAt(i) :
                      \E j \in 1..Len(config.tango_nodes) :
                          /\ config.tango_nodes[j].name = Token(args.tango_node, i)
                          /\ ssh_calls[k].user_host[3] = config.tango_nodes[j].node.fqdn

\* A node named twice, deployed twice.
C13_Witness ==
    /\ pc = "done"
    /\ ExitStatus = 0
    /\ args.command = "deploy"
    /\ NumTokens(args.tango_node) = 2
    /\ Token(args.tango_node, 1) = Token(args.tango_node, 2)
    /\ Len(ssh_calls) = 6

(***************************************************************************)
(* C14: for a reference org/name:tag the retag command names the pulled    *)
(* reference and name:tag, the remove command names org/name:tag; so after *)
(* a fully successful sequence the node's image store holds name:tag and   *)
(* not org/name:tag, and after a successful pull and a failed retag it     *)
(* still holds org/name:tag.  The image store is read off the commands     *)
(* that returned 0 on the host: pull adds the reference, tag adds the new  *)
(* name, image rm removes the reference; a failed command changes nothing. *)
(***************************************************************************)
C14_Arg(c) == Tail(c.command)

\* The reference without its organization segment.
C14_Bare(ref) ==
    LET slash == CHOOSE p \in 1..Len(ref) : ref[p] = "/"
    IN  SubSeq(ref, slash + 1, Len(ref))

\* Second operand of "docker tag <src> <dst>".
C14_TagTarget(c) ==
    LET a == C14_Arg(c)
        sp == CHOOSE p \in 1..Len(a) : a[p] = " "
    IN  SubSeq(a, sp + 1, Len(a))

RECURSIVE C14_ImageStore(_, _)
C14_ImageStore(host, n) ==
    IF n = 0 THEN {}
    ELSE LET c == ssh_calls[n]
             before == C14_ImageStore(host, n - 1)
         IN  IF c.user_host[3] # host \/ c.returncode # 0 THEN before
             ELSE IF IsPull(c) THEN before \cup {C14_Arg(c)}
             ELSE IF IsRetag(c) THEN before \cup {C14_TagTarget(c)}
             ELSE before \ {C14_Arg(c)}

C14_RetagBareRemoveQualified ==
    /\ \A k \in 1..Len(ssh_calls) :
          LET c == ssh_calls[k]
              ref == image
          IN  Count(ref, "/") = 1 =>
                /\ IsPull(c) => c.command = <<"docker pull ">> \o ref
                /\ IsRetag(c) =>
                      c.command = <<"docker tag ">> \o ref \o <<" ">> \o C14_Bare(ref)
                /\ IsRemove(c) => c.command = <<"docker image rm ">> \o ref
    /\ (pc = "loop" /\ node_idx > 1 /\ Count(image, "/") = 1) =>
          LET store == C14_ImageStore(target_nodes[node_idx - 1].fqdn, Len(ssh_calls))
          IN  C14_Bare(image) \in store /\ image \notin store
    /\ (pc = "done" /\ ssh_calls # <<>> /\ Count(image, "/") = 1
          /\ IsRetag(ssh_calls[Len(ssh_calls)])
          /\ ssh_calls[Len(ssh_calls)].returncode # 0) =>
          image \in C14_ImageStore(ssh_calls[Len(ssh_calls)].user_host[3], Len(ssh_calls))

\* A node whose sequence has just completed, for a reference o/s:t.
C14_Witness ==
    /\ pc = "loop"
    /\ node_idx = 2
    /\ image = <<"o", "/", "s", ":", "t">>
    /\ ssh_calls[2].command = <<"docker tag ", "o", "/", "s", ":", "t", " ", "s", ":", "t">>
    /\ C14_ImageStore(target_nodes[1].fqdn, 3) = {<<"s", ":", "t">>}

(***************************************************************************)
(* C15 as stated: a command-line override that is given replaces the       *)
(* global default: a node without its own override of a credential field   *)
(* uses the command-line value, a node with its own override uses its own,  *)
(* and the built image is <override org>/<name>.  An override that is the   *)
(* empty string is given and is not used.                                  *)
(***************************************************************************)
C15_OverrideWheneverGiven ==
    /\ \A k \in 1..Len(ssh_calls) :
          LET c == ssh_calls[k]
              n == target_nodes[c.pos]
          IN  /\ n.ssh_key_path # None => c.identity = n.ssh_key_path[1]
              /\ n.ssh_username # None => c.user_host[1] = n.ssh_username[1]
              /\ (n.ssh_key_path = None /\ args.ssh_key_path # None) =>
                    c.identity = args.ssh_key_path[1]
              /\ (n.ssh_username = None /\ args.ssh_username # None) =>
                    c.user_host[1] = args.ssh_username[1]
    /\ \A k \in 1..Len(local_calls) :
          (local_calls[k].cmd = "docker build" /\ args.org # None) =>
              local_calls[k].image =
                  args.org[1] \o <<"/">> \o args.image_name \o <<":">> \o timestamp_tag

(***************************************************************************)
(* C15 amended: a non-empty command-line override (organization, key path, *)
(* username) replaces the corresponding global default for the whole run,  *)
(* and an absent or empty one leaves the default: every node without a     *)
(* non-empty override of its own for a credential field uses the           *)
(* command-line value, or the configured default when there is none, a     *)
(* node with a non-empty override of its own uses its own; the built image *)
(* is <override org>/<name>; the node table is never changed.              *)
(***************************************************************************)
C15_Effective(opt, default) == IF opt \notin {None, Some("")} THEN opt[1] ELSE default

C15_EffectiveOrg(opt, default) == IF opt # None /\ Len(opt[1]) > 0 THEN opt[1] ELSE default

C15_State ==
    \E c0 \in Configs :
        /\ pc # "main" =>
              /\ config.docker_hub_org = C15_EffectiveOrg(args.org, c0.docker_hub_org)
              /\ config.ssh_key_path = C15_Effective(args.ssh_key_path, c0.ssh_key_path)
              /\ config.ssh_username = C15_Effective(args.ssh_username, c0.ssh_username)
        /\ \A k \in 1..Len(ssh_calls) :
              LET c == ssh_calls[k]
                  n == target_nodes[c.pos]
              IN  /\ c.identity =
                        C15_Effective(n.ssh_key_path,
                            C15_Effective(args.ssh_key_path, c0.ssh_key_path))
                  /\ c.user_host[1] =
                        C15_Effective(n.ssh_username,
                            C15_Effective(args.ssh_username, c0.ssh_username))
        /\ \A k \in 1..Len(local_calls) :
              local_calls[k].cmd = "docker build" =>
                  local_calls[k].image =
                      C15_EffectiveOrg(args.org, c0.docker_hub_org)
                          \o <<"/">> \o args.image_name \o <<":">> \o timestamp_tag

C15_NonEmptyOverridesReplaceDefaults ==
    /\ []C15_State
    /\ [][config'.tango_nodes = config.tango_nodes]_vars

\* --ssh-key-path kc given: a node without a key of its own used kc, and a node
\* with a username of its own kept it.
C15_Witness ==
    /\ args.ssh_key_path = Some("kc")
    /\ args.org = Some(<<"p">>)
    /\ \E k \in 1..Len(ssh_calls) :
          LET n == target_nodes[ssh_calls[k].pos]
          IN  /\ n.ssh_key_path = None
              /\ n.ssh_username = Some("u2")
              /\ ssh_calls[k].identity = "kc"
              /\ ssh_calls[k].user_host[1] = "u2"
    /\ local_calls # <<>>
    /\ local_calls[1].image = <<"p", "/", "s", ":">> \o timestamp_tag

(***************************************************************************)
(* C16: when every external call returns, every run of build, deploy or    *)
(* aio ends, and at most three remote commands are issued per entry of the *)
(* resolved list: a command that failed is the last one of the run.        *)
(***************************************************************************)
C16_AtMostThreePerEntry ==
    /\ Len(ssh_calls) <= 3 * Len(target_nodes)
    /\ \A i \in 1..Len(target_nodes) : Cardinality(CallsAt(i)) <= 3
    /\ \A k \in 1..Len(ssh_calls) : ssh_calls[k].returncode # 0 => k = Len(ssh_calls)

C16_TerminatesWithoutRetry ==
    /\ <>(pc = "done")
    /\ []C16_AtMostThreePerEntry

\* A run that ended after a failed remote command on its second entry.
C16_Witness ==
    /\ pc = "done"
    /\ Len(target_nodes) = 2
    /\ Len(ssh_calls) = 4
    /\ ssh_calls[4].returncode # 0

(***************************************************************************)
(* C17: in deploy, an image reference without "/" never reaches a remote   *)
(* command: with at least one targeted entry the run ends on the first     *)
(* entry with an IndexError, after its start marker and before its pull.   *)
(***************************************************************************)
C17_NoSlash == args.command = "deploy" /\ ~Contains(args.image_name, "/")

C17_NoOrgNoPull ==
    C17_NoSlash =>
        /\ ssh_calls = <<>>
        /\ pc # "ssh"
        /\ (pc = "done" /\ Len(target_nodes) > 0) =>
              /\ ExitStatus # 0
              /\ exc[1].type = "IndexError"
              /\ node_idx = 1
              /\ Len(stdout) = 1
              /\ stdout[1].text = "Deploying image"

\* Two entries resolved, the run ended on the first.
C17_Witness ==
    /\ C17_NoSlash
    /\ pc = "done"
    /\ Len(target_nodes) = 2
    /\ exc # NoExc
=============================================================================
